---- MODULE Spec2Model ----
(***************************************************************************)
(* A model of src/fragpipe_runner/execute.py: run_fragpipe (headless run   *)
(* of the external tool, optional staging directory, merge of the staged   *)
(* tree into the final output directory, canonical-log reconciliation),    *)
(* search_results_exist and clean_up_rawfile_directory.                    *)
(*                                                                         *)
(* A directory's content is a tree: a function from relative paths         *)
(* (non-empty sequences of entry names) to a node, which is DIR for a      *)
(* directory and the file's content (a string) for a file.                 *)
(***************************************************************************)
EXTENDS Integers, Sequences, FiniteSets, TLC

\* ------------------------------------------------------------- bounds
\* Nesting depth of the directory trees the model draws.
MaxDepth == 1
\* Largest memory ceiling and thread count the calls ask for.
MaxRam == 12
MaxThreads == 12
\* Calls of clean_up_rawfile_directory made one after the other.
CleanRuns == 2

\* ------------------------------------------------------- file trees
DIR == "<dir>"
EmptyTree == [p \in {} |-> DIR]

\* names of the entries directly in the directory
Top(t) == {p[1] : p \in DOMAIN t}
Has(t, n) == <<n>> \in DOMAIN t
IsDir(t, n) == Has(t, n) /\ t[<<n>>] = DIR
\* the content of directory n of t, as a tree
Sub(t, n) ==
  [q \in {Tail(p) : p \in {x \in DOMAIN t : Len(x) > 1 /\ x[1] = n}} |-> t[<<n>> \o q]]
\* t without entry n and everything under it
Without(t, n) == [p \in {x \in DOMAIN t : x[1] # n} |-> t[p]]
\* t with entry n set to node, with content sub under it
Put(t, n, node, sub) ==
  LET base == Without(t, n)
      dom == DOMAIN base \cup {<<n>>} \cup {<<n>> \o q : q \in DOMAIN sub}
  IN [p \in dom |-> IF p = <<n>> THEN node
                    ELSE IF p[1] = n THEN sub[Tail(p)]
                    ELSE base[p]]
\* t with file n holding content c (open(..., "w") and write)
PutFile(t, n, c) == Put(t, n, c, EmptyTree)

\* The trees the model draws: entry FileName is absent or a file, entry
\* DirName is absent, a file, or a directory holding a tree one level less deep.
FileName == "a.txt"
DirName == "d"
RECURSIVE Trees(_, _)
Trees(k, c) ==
  IF k = 0 THEN {EmptyTree}
  ELSE LET withDir == {EmptyTree, PutFile(EmptyTree, DirName, c)}
                        \cup {Put(EmptyTree, DirName, DIR, s) : s \in Trees(k - 1, c)}
       IN withDir \cup {PutFile(t, FileName, c) : t \in withDir}

\* ---------------------------------- _move_and_replace_folder_contents
\* The outcome of a call: what is left under the source, the destination, and
\* whether the call completed (ok) or raised.  A call that completed has
\* removed the source directory itself (line 265).
Outcome(s, d, ok) == [src |-> s, dst |-> d, ok |-> ok]

\* lines 258-264: the destination entry, if any, is removed (rmtree of a
\* directory, unlink of a file) and the source entry, with all under it, is
\* moved to its place
MoveEntry(s, d, n) == Outcome(Without(s, n), Put(d, n, s[<<n>>], Sub(s, n)), TRUE)

\* a merge that puts the source directory in the place of the destination's
MergeEntryReplace(s, d, n, inner) ==
  Outcome(Without(s, n), Put(d, n, DIR, Sub(s, n)), FALSE)

\* lines 253-256, a directory on both sides: the recursive call merges the
\* two, and when it completes it has removed the source directory itself
\* (its line 265); item_path.rmdir() of line 255 then finds no directory and
\* raises FileNotFoundError.  When the recursive call raises, what it left
\* stays where it is.
MergeEntry(s, d, n, inner) ==
  IF inner.ok THEN Outcome(Without(s, n), Put(d, n, DIR, inner.dst), FALSE)
  ELSE Outcome(Put(s, n, DIR, inner.src), Put(d, n, DIR, inner.dst), FALSE)

\* lines 250-264: the entries still to do are taken one after the other, in
\* the order of iterdir(), which is any order; the first that raises ends the
\* loop
RECURSIVE LoopOutcomes(_, _, _)
LoopOutcomes(s, d, todo) ==
  IF todo = {} THEN {Outcome(s, d, TRUE)}
  ELSE UNION {
         IF IsDir(s, n) /\ IsDir(d, n)
         THEN {MergeEntry(s, d, n, inner) :
                 inner \in LoopOutcomes(Sub(s, n), Sub(d, n), Top(Sub(s, n)))}
         ELSE LET o == MoveEntry(s, d, n)
              IN LoopOutcomes(o.src, o.dst, todo \ {n})
         : n \in todo }

\* lines 246-265: the destination exists or is created (248), the loop runs
\* over the source's entries, and the emptied source is removed (265)
MergeOutcomes(s, d) == LoopOutcomes(s, d, Top(s))

\* a call of the function: iterdir() of a source directory that does not
\* exist raises FileNotFoundError at line 250, the destination untouched
CallOutcomes(srcExists, s, d) ==
  IF srcExists THEN MergeOutcomes(s, d) ELSE {Outcome(s, d, FALSE)}

\* lines 108-115: the external process writes tree w into the work directory
\* t that --workdir names: a directory of w joins the one that is there,
\* anything else replaces what is there.
RECURSIVE WriteInto(_, _, _)
WriteInto(t, w, todo) ==
  IF todo = {} THEN t
  ELSE LET n == CHOOSE m \in todo : TRUE
           t1 == IF IsDir(w, n) /\ IsDir(t, n)
                 THEN Put(t, n, DIR, WriteInto(Sub(t, n), Sub(w, n), Top(Sub(w, n))))
                 ELSE Put(t, n, w[<<n>>], Sub(w, n))
       IN WriteInto(t1, w, todo \ {n})

\* ------------------------------------------------ names and strings
RedirectName == "fragpipe_stdout_redirect.log"
ResultName == "combined_protein.tsv"
ShortLogName == "log_short.txt"
Digits == <<"0", "1", "2", "3", "4", "5", "6", "7", "8", "9">>

\* str(n) of a Python int: decimal digits, "-" in front of a negative one
RECURSIVE NatStr(_)
NatStr(n) == IF n < 10 THEN Digits[n + 1] ELSE NatStr(n \div 10) \o Digits[(n % 10) + 1]
str(n) == IF n < 0 THEN "-" \o NatStr(0 - n) ELSE NatStr(n)

\* glob("log_*.txt"): the name starts with log_ and ends with .txt, the two
\* not overlapping
GlobLog(n) ==
  /\ Len(n) >= 8
  /\ SubSeq(n, 1, 4) = "log_"
  /\ SubSeq(n, Len(n) - 3, Len(n)) = ".txt"

\* line 229: the entries of the directory that glob matches and whose name
\* is 27 characters long
LogNameLen == 27
CanonicalLogs(t) == {n \in Top(t) : GlobLog(n) /\ Len(n) = LogNameLen}

\* ------------------------------------------------------------ state
VARIABLES
  \* the filesystem
  finalExists,    \* output_dir exists (as a directory)
  final,          \* its content
  rootExists,     \* the temp_dir given to the call exists
  rootOther,      \* its content other than this call's own subdirectory
  stagedExists,   \* temp_output.name, the call's subdirectory, exists
  staged,         \* its content
  \* the host: os.name, and whether <root>/bin/<executable> exists
  os_name, exec_exists,
  \* the call's arguments
  ram, threads, temp_dir,
  \* run_fragpipe's position and locals
  pc, executable_name, temp_dir_existed, cmd, execution_successful,
  exception,      \* the exception in flight, "none" when there is none
  returncode,     \* the process's exit status, -1 while there is none
  stderr,         \* what subprocess.run captured of the process's stderr
  retval,         \* what the call returned
  latest_log_file, \* what line 144 found, "unbound" before it
  \* history, for the properties
  pre,            \* the filesystem when the call was made
  toolTree,       \* the staged tree as the process left it
  mergeResult,    \* "none", "ok" or "raised": how line 130 ended
  lost,           \* what the merge left in the staging subdirectory
  steps,          \* how often each cleanup step ran
  at_search,      \* the final directory as line 144 saw it
  calls,          \* calls of run_fragpipe made so far, this one included
  earlier,        \* what the first of two calls left
  \* the path given to search_results_exist and clean_up_rawfile_directory
  path_kind,      \* "missing", "file" or "dir"
  path_tree,      \* the directory's content
  path_before,    \* its content before the last of these calls
  last_call,      \* the last of these calls: "none", "search" or "clean"
  found,          \* what search_results_exist returned, "none" before it
  clean_runs,     \* calls of clean_up_rawfile_directory so far
  deleted,        \* files the last of them unlinked
  clean_error     \* the exception the last of them raised, "none" without

fsVars == <<finalExists, final, rootExists, rootOther, stagedExists, staged>>
argVars == <<os_name, exec_exists, ram, threads, temp_dir>>
localVars == <<executable_name, temp_dir_existed, cmd, execution_successful>>
procVars == <<returncode, stderr>>
histVars == <<pre, toolTree, mergeResult, lost, steps>>
stepVars == <<latest_log_file, at_search, calls, earlier>>
auxVars == <<path_kind, path_tree, path_before, last_call, found, clean_runs, deleted, clean_error>>
vars == <<fsVars, argVars, localVars, procVars, histVars, pc, exception, retval,
          stepVars, auxVars>>

FragpipeRoot == "/opt/fragpipe"
WorkflowPath == "/data/run.workflow"
ManifestPath == "/data/run.manifest"
OutputDir == "/data/out"
TempDir == "/tmp/stage"
TempOutputName == "/tmp/stage/tmpk3x9"
OsNames == {"nt", "posix", "java"}
ToolLogName == "log_2024-01-01_12-00-00.txt"
PriorLogName == "log_2023-06-01_09-30-00.txt"
\* what time.strftime("%Y-%m-%d_%H-%M-%S") gives at line 150
Now == "2024-01-01_12-30-00"

\* ---------------------------------------------------- run_fragpipe
\* an argument vector whose thread flag is given from threads = 0 on
BuildCmdFromZero(exec_path, workflow, manifest, workdir, r, t) ==
  LET base == <<exec_path, "--headless", "--workflow", workflow,
                "--manifest", manifest, "--workdir", workdir, "--ram", str(r)>>
  IN IF t >= 0 THEN base \o <<"--threads", str(t)>> ELSE base

\* lines 88-101: the argument vector
BuildCmd(exec_path, workflow, manifest, workdir, r, t) ==
  LET base == <<exec_path, "--headless", "--workflow", workflow,
                "--manifest", manifest, "--workdir", workdir, "--ram", str(r)>>
  IN IF t > 0 THEN base \o <<"--threads", str(t)>> ELSE base

\* preconditions that do not look for the executable
PreconditionsNoLookup(os, exists) ==
  IF os \notin {"nt", "posix"} THEN "OSError" ELSE "prepare"

\* lines 58-70: where the call goes from its preconditions: on to line 72,
\* or out with the error it raises
Preconditions(os, exists) ==
  IF os \notin {"nt", "posix"} THEN "OSError"
  ELSE IF ~exists THEN "FileNotFoundError"
  ELSE "prepare"

\* lines 55-70: the platform's executable name, then the executable must exist
Validate ==
  /\ pc = "idle"
  /\ executable_name' = (IF os_name = "nt" THEN "fragpipe.bat"
                         ELSE IF os_name = "posix" THEN "fragpipe"
                         ELSE executable_name)
  /\ IF Preconditions(os_name, exec_exists) = "prepare"
     THEN pc' = "prepare" /\ UNCHANGED exception
     ELSE pc' = "raised" /\ exception' = Preconditions(os_name, exec_exists)
  /\ UNCHANGED <<fsVars, argVars, procVars, histVars, retval, temp_dir_existed, cmd,
                 execution_successful>>
  /\ UNCHANGED <<stepVars, auxVars>>

\* lines 72-101: the final directory, the staging context, the command
Prepare ==
  /\ pc = "prepare"
  /\ finalExists' = TRUE
  /\ final' = final
  /\ IF temp_dir = "None"
     THEN UNCHANGED <<rootExists, stagedExists, staged, temp_dir_existed>>
     ELSE /\ temp_dir_existed' = rootExists
          /\ rootExists' = TRUE
          /\ stagedExists' = TRUE
          /\ staged' = EmptyTree
  /\ cmd' = BuildCmd(FragpipeRoot \o "/bin/" \o executable_name,
                     WorkflowPath, ManifestPath,
                     IF temp_dir = "None" THEN OutputDir ELSE TempOutputName,
                     ram, threads)
  /\ pc' = "execute"
  /\ UNCHANGED <<rootOther, argVars, procVars, histVars, executable_name,
                 execution_successful, exception, retval>>
  /\ UNCHANGED <<stepVars, auxVars>>

\* what the process may leave in its work directory: result files and
\* directories, and its own log or none
ToolTrees ==
  LET results == Trees(MaxDepth, "new")
  IN results \cup {PutFile(t, ToolLogName, "tool log") : t \in results}

ToolWrites(t, w) == WriteInto(t, w, Top(w))

\* a supervisor that takes output on stderr for a failure
SuperviseByStderr(code, out, err) == IF code = 0 /\ err = "" THEN "True" ELSE "False"

\* lines 108-126: check=True raises CalledProcessError on a non-zero exit
\* status, which line 121 takes; what was written decides nothing
Supervise(code, out, err) == IF code = 0 THEN "True" ELSE "False"

\* lines 105-126: the redirect log is opened for writing in the final
\* directory, the process runs to its end, its exit status decides.  While it
\* runs, a file may appear in a staging root that this call created (stray):
\* the root is shared with whoever else uses that path.
Execute ==
  /\ pc = "execute"
  /\ \/ \* subprocess.run cannot start the process and raises an OSError,
        \* which no except clause of line 121 takes
        /\ final' = PutFile(final, RedirectName, "")
        /\ exception' = "PermissionError"
        /\ UNCHANGED <<staged, rootOther, returncode, stderr,
                       execution_successful, toolTree>>
     \/ \E w \in ToolTrees, code \in {0, 1}, out \in {"", "progress"},
           err \in {"", "warning"}, stray \in BOOLEAN :
          /\ returncode' = code
          /\ stderr' = err
          /\ execution_successful' = Supervise(code, out, err)
          /\ toolTree' = w
          /\ IF temp_dir = "None"
             THEN /\ final' = ToolWrites(PutFile(final, RedirectName, out), w)
                  /\ stray = FALSE
                  /\ UNCHANGED <<staged, rootOther>>
             ELSE /\ final' = PutFile(final, RedirectName, out)
                  /\ (stray => ~temp_dir_existed)
                  /\ staged' = w
                  /\ rootOther' = (IF stray THEN PutFile(rootOther, "stray.tmp", "x")
                                            ELSE rootOther)
          /\ UNCHANGED exception
  /\ pc' = IF temp_dir = "None" THEN "after" ELSE "finally"
  /\ UNCHANGED <<finalExists, rootExists, stagedExists, argVars, executable_name,
                 temp_dir_existed, cmd, pre, mergeResult, lost, steps, retval>>
  /\ UNCHANGED <<stepVars, auxVars>>

\* a finally block without the try around the merge
MergeHandlerPropagates(ok, inflight) == IF ok THEN inflight ELSE "FileNotFoundError"

\* lines 129-132: the exception in flight after the try around the merge:
\* one the merge raised is caught and logged, so it is the one there was
MergeHandler(ok, inflight) == inflight

\* a call that removes the staging root whether it made it or not
RemovesRootAlways(existed) == TRUE

\* line 134: the root is removed only by the call that created it
RemovesRoot(existed) == ~existed

\* line 136, temp_dir_path.rmdir(): an empty directory is removed, on any
\* other rmdir raises OSError and leaves it
RmdirRoot(other, exists) ==
  IF other = EmptyTree THEN [exists |-> FALSE, raised |-> FALSE]
  ELSE [exists |-> exists, raised |-> TRUE]

\* a finally block that lets the OSError of rmdir out
RootHandlerPropagates(raised, inflight) == IF raised THEN "OSError" ELSE inflight

\* lines 135-141: the OSError of rmdir is caught and logged, so the exception
\* in flight is the one there was
RootHandler(raised, inflight) == inflight

\* lines 127-141, the finally block when a staging directory is used.  The
\* staged tree is merged into the final directory, an exception of the merge
\* being caught and logged (129-132); temp_output.cleanup() removes the
\* subdirectory with whatever the merge left in it (133); a staging root that
\* this call created is removed when it is empty (134-141).
Cleanup ==
  /\ pc = "finally"
  /\ \E o \in CallOutcomes(stagedExists, staged, final) :
       LET r == IF RemovesRoot(temp_dir_existed) THEN RmdirRoot(rootOther, rootExists)
                ELSE [exists |-> rootExists, raised |-> FALSE]
       IN /\ final' = o.dst
          /\ mergeResult' = (IF o.ok THEN "ok" ELSE "raised")
          /\ lost' = o.src
          /\ rootExists' = r.exists
          /\ exception' = RootHandler(r.raised, MergeHandler(o.ok, exception))
  /\ stagedExists' = FALSE
  /\ staged' = EmptyTree
  /\ steps' = [steps EXCEPT !.merge = @ + 1, !.dispose = @ + 1]
  /\ pc' = "after"
  /\ UNCHANGED <<finalExists, rootOther, argVars, localVars, procVars,
                 pre, toolTree, retval>>
  /\ UNCHANGED <<stepVars, auxVars>>

\* the end of the finally block with an exception in flight: it leaves the
\* function, lines 143-156 do not run
Propagate ==
  /\ pc = "after"
  /\ exception # "none"
  /\ pc' = "raised"
  /\ UNCHANGED <<fsVars, argVars, localVars, procVars, histVars, exception, retval>>
  /\ UNCHANGED <<stepVars, auxVars>>

\* line 229-232: the canonical log with the greatest name, "None" without one
\* (the names are compared at their first difference)
CharOrder == "-.0123456789_abcdefghijklmnopqrstuvwxyz"
Rank(c) == CHOOSE i \in 1..Len(CharOrder) : SubSeq(CharOrder, i, i) = c
RECURSIVE NameLess(_, _)
NameLess(a, b) ==
  IF a = "" THEN b # ""
  ELSE IF b = "" THEN FALSE
  ELSE IF SubSeq(a, 1, 1) = SubSeq(b, 1, 1)
       THEN NameLess(SubSeq(a, 2, Len(a)), SubSeq(b, 2, Len(b)))
       ELSE Rank(SubSeq(a, 1, 1)) < Rank(SubSeq(b, 1, 1))
\* a search that takes the first of the names in ascending order
find_first_log_file(t) ==
  LET log_files == CanonicalLogs(t)
  IN IF log_files # {}
     THEN CHOOSE n \in log_files : \A m \in log_files : m = n \/ NameLess(n, m)
     ELSE "None"

\* a search that finds nothing
find_no_log_file(t) == "None"

find_latest_log_file(t) ==
  LET log_files == CanonicalLogs(t)
  IN IF log_files # {}
     THEN CHOOSE n \in log_files : \A m \in log_files : m = n \/ NameLess(m, n)
     ELSE "None"

\* a reconciliation that deletes the redirect log whatever it found
ReconciledAlwaysDelete(t, latest, time_stamp) == Without(t, RedirectName)

\* a reconciliation that renames the redirect log whatever it found
ReconciledAlwaysRename(t, latest, time_stamp) ==
  Put(Without(t, RedirectName), "log_" \o time_stamp \o ".txt",
      t[<<RedirectName>>], Sub(t, RedirectName))

\* lines 145-154: the final directory after the redirect log was renamed to
\* log_<time_stamp>.txt (no canonical log found) or deleted (one found)
Reconciled(t, latest, time_stamp) ==
  IF latest = "None"
  THEN Put(Without(t, RedirectName), "log_" \o time_stamp \o ".txt",
           t[<<RedirectName>>], Sub(t, RedirectName))
  ELSE Without(t, RedirectName)

\* lines 144-156: the redirect log becomes the canonical log when the final
\* directory has none, and is deleted when it has one; the call returns
ReconcileLog ==
  /\ pc = "after"
  /\ exception = "none"
  /\ latest_log_file' = find_latest_log_file(final)
  /\ at_search' = final
  /\ UNCHANGED <<calls, earlier>>
  /\ IF ~Has(final, RedirectName)
     THEN \* rename (152) or unlink (154) of a missing file
          /\ pc' = "raised"
          /\ exception' = "FileNotFoundError"
          /\ UNCHANGED <<final, retval, steps>>
     ELSE /\ final' = Reconciled(final, find_latest_log_file(final), Now)
          /\ steps' = [steps EXCEPT !.reconcile = @ + 1]
          /\ pc' = "returned"
          /\ retval' = execution_successful
          /\ UNCHANGED exception
  /\ UNCHANGED <<finalExists, rootExists, rootOther, stagedExists, staged, argVars,
                 localVars, procVars, pre, toolTree, mergeResult, lost>>
  /\ UNCHANGED auxVars

\* what `earlier` holds while there was one call only
NoCall == [final |-> EmptyTree, toolTree |-> EmptyTree, stdout |-> "", returncode |-> -1]

\* --------------------------------------------------------------- start
\* what the final directory may hold before the call: results of an earlier
\* run, a canonical log, a log-like file of another length

RECURSIVE WithAny(_, _)
WithAny(ts, names) ==
  IF names = {} THEN ts
  ELSE LET n == CHOOSE m \in names : TRUE
       IN WithAny(ts \cup {PutFile(t, n, "old") : t \in ts}, names \ {n})
PriorTrees == WithAny(Trees(MaxDepth, "old"), {PriorLogName, ShortLogName})

InitFs ==
  /\ finalExists \in BOOLEAN
  /\ final \in (IF finalExists THEN PriorTrees ELSE {EmptyTree})
  /\ rootExists \in BOOLEAN
  /\ rootOther \in (IF rootExists THEN {EmptyTree, PutFile(EmptyTree, "other.tmp", "x")}
                                  ELSE {EmptyTree})
  /\ stagedExists = FALSE
  /\ staged = EmptyTree

InitCall ==
  /\ pc = "idle"
  /\ executable_name = "unbound"
  /\ temp_dir_existed = FALSE
  /\ cmd = <<>>
  /\ execution_successful = "unbound"
  /\ exception = "none"
  /\ returncode = -1
  /\ stderr = ""
  /\ retval = "none"
  /\ latest_log_file = "unbound"
  /\ at_search = EmptyTree
  /\ calls = 1
  /\ earlier = NoCall
  /\ pre = [finalExists |-> finalExists, final |-> final,
            rootExists |-> rootExists, rootOther |-> rootOther,
            stagedExists |-> stagedExists]
  /\ toolTree = EmptyTree
  /\ mergeResult = "none"
  /\ lost = EmptyTree
  /\ steps = [merge |-> 0, dispose |-> 0, reconcile |-> 0]

\* no call of search_results_exist or clean_up_rawfile_directory yet
InitAux ==
  /\ path_before = path_tree
  /\ last_call = "none"
  /\ found = "none"
  /\ clean_runs = 0
  /\ deleted = 0
  /\ clean_error = "none"

\* calls with the default ram and threads (lines 19-20), with and without a
\* staging directory
Init ==
  /\ InitFs
  /\ os_name \in OsNames
  /\ exec_exists \in BOOLEAN
  /\ temp_dir \in {"None", TempDir}
  /\ (temp_dir = "None" => ~rootExists)
  /\ ram = 0
  /\ threads = -1
  /\ InitCall
  /\ path_kind = "missing"
  /\ path_tree = EmptyTree
  /\ InitAux

Next ==
  \/ Validate
  \/ Prepare
  \/ Execute
  \/ Cleanup
  \/ Propagate
  \/ ReconcileLog

Spec == Init /\ [][Next]_vars

\* A second call with the arguments of the first, on the filesystem the first
\* left (lines 14-23): the locals are those of a new call.
CallAgain ==
  /\ pc = "returned"
  /\ calls = 1
  /\ calls' = 2
  /\ earlier' = [final |-> final, toolTree |-> toolTree,
               stdout |-> at_search[<<RedirectName>>], returncode |-> returncode]
  /\ pc' = "idle"
  /\ executable_name' = "unbound"
  /\ temp_dir_existed' = FALSE
  /\ cmd' = <<>>
  /\ execution_successful' = "unbound"
  /\ exception' = "none"
  /\ returncode' = -1
  /\ stderr' = ""
  /\ retval' = "none"
  /\ latest_log_file' = "unbound"
  /\ at_search' = EmptyTree
  /\ pre' = [finalExists |-> finalExists, final |-> final,
             rootExists |-> rootExists, rootOther |-> rootOther,
             stagedExists |-> stagedExists]
  /\ toolTree' = EmptyTree
  /\ mergeResult' = "none"
  /\ lost' = EmptyTree
  /\ steps' = [merge |-> 0, dispose |-> 0, reconcile |-> 0]
  /\ UNCHANGED <<fsVars, argVars, auxVars>>

\* Two calls one after the other on a supported platform, staging under a
\* root that exists, the final directory holding what earlier runs left.
InitRerun ==
  /\ finalExists = TRUE
  /\ final \in PriorTrees
  /\ rootExists = TRUE
  /\ rootOther = EmptyTree
  /\ stagedExists = FALSE
  /\ staged = EmptyTree
  /\ os_name = "posix"
  /\ exec_exists = TRUE
  /\ temp_dir = TempDir
  /\ ram = 0
  /\ threads = -1
  /\ InitCall
  /\ path_kind = "missing"
  /\ path_tree = EmptyTree
  /\ InitAux

NextRerun ==
  \/ Validate
  \/ Prepare
  \/ Execute
  \/ Cleanup
  \/ Propagate
  \/ ReconcileLog
  \/ CallAgain

SpecRerun == InitRerun /\ [][NextRerun]_vars

\* The invocation builder alone (lines 55-101), over every memory ceiling
\* and thread count up to the bounds.
InitCmd ==
  /\ finalExists \in BOOLEAN
  /\ final = EmptyTree
  /\ rootExists = FALSE
  /\ rootOther = EmptyTree
  /\ stagedExists = FALSE
  /\ staged = EmptyTree
  /\ os_name \in {"nt", "posix"}
  /\ exec_exists = TRUE
  /\ temp_dir \in {"None", TempDir}
  /\ ram \in 0..MaxRam
  /\ threads \in (-2)..MaxThreads
  /\ InitCall
  /\ path_kind = "missing"
  /\ path_tree = EmptyTree
  /\ InitAux

NextCmd ==
  \/ Validate
  \/ Prepare

SpecCmd == InitCmd /\ [][NextCmd]_vars

\* ------------------------------------------- search_results_exist
\* a search that looks for the log only
SearchOutcomeLogOnly(kind, t) ==
  IF kind # "dir" THEN "False"
  ELSE IF find_latest_log_file(t) # "None" THEN "True"
  ELSE "False"

\* lines 170-183
SearchOutcome(kind, t) ==
  IF kind # "dir" THEN "False"
  ELSE IF find_latest_log_file(t) # "None" THEN "True"
  ELSE IF Has(t, ResultName) THEN "True"
  ELSE "False"

search_results_exist ==
  /\ found = "none"
  /\ found' = SearchOutcome(path_kind, path_tree)
  /\ path_before' = path_tree
  /\ last_call' = "search"
  /\ UNCHANGED <<path_kind, path_tree, clean_runs, deleted, clean_error>>
  /\ UNCHANGED <<fsVars, argVars, localVars, procVars, histVars, pc, exception, retval,
                 stepVars>>

\* ------------------------------------- clean_up_rawfile_directory
EndsWith(n, suffix) ==
  /\ Len(n) >= Len(suffix)
  /\ SubSeq(n, Len(n) - Len(suffix) + 1, Len(n)) = suffix
\* line 207, rawfile_dir.rglob("*" + pattern): every path under the
\* directory, at any depth, file or directory, whose name ends with pattern
rglob(t, pattern) == {p \in DOMAIN t : EndsWith(p[Len(p)], pattern)}
RemovePaths(t, ps) == [p \in DOMAIN t \ ps |-> t[p]]

\* lines 205-217: how a call on a directory may end.  temp_files holds the
\* matches of ".mzBIN", then those of "_uncalibrated.mzML", each group in the
\* order of the directory walk, which is any order.  unlink() removes a file
\* and raises on a directory (IsADirectoryError), which ends the call with the
\* files before it in the list removed.
CleanOutcomes(t) ==
  LET first == rglob(t, ".mzBIN")
      second == rglob(t, "_uncalibrated.mzML")
      dirs(ps) == {p \in ps : t[p] = DIR}
      files(ps) == {p \in ps : t[p] # DIR}
      raised(gone) == [tree |-> RemovePaths(t, gone), deleted |-> Cardinality(gone),
                       error |-> "IsADirectoryError"]
  IN IF dirs(first) # {}
     THEN {raised(gone) : gone \in SUBSET files(first)}
     ELSE IF dirs(second) # {}
     THEN {raised(first \cup gone) : gone \in SUBSET files(second)}
     ELSE {[tree |-> RemovePaths(t, first \cup second),
            deleted |-> Cardinality(first \cup second), error |-> "none"]}

\* lines 194-217
clean_up_rawfile_directory ==
  /\ clean_runs < CleanRuns
  /\ clean_runs' = clean_runs + 1
  /\ path_before' = path_tree
  /\ last_call' = "clean"
  /\ IF path_kind # "dir"
     THEN \* lines 198-203: a warning is logged and the call returns
          /\ deleted' = 0
          /\ clean_error' = "none"
          /\ UNCHANGED path_tree
     ELSE \E o \in CleanOutcomes(path_tree) :
            /\ path_tree' = o.tree
            /\ deleted' = o.deleted
            /\ clean_error' = o.error
  /\ UNCHANGED <<path_kind, found>>
  /\ UNCHANGED <<fsVars, argVars, localVars, procVars, histVars, pc, exception, retval,
                 stepVars>>

\* The directories these two are called on: output directories with and
\* without a canonical log, a log-like file of another length, the result
\* table and another file; raw-file directories, nested, with and without
\* files and directories named like the tool's temporary files.
ResultTrees == WithAny({EmptyTree}, {PriorLogName, ShortLogName, ResultName, FileName})
RECURSIVE RawTrees(_)
RawTrees(k) ==
  IF k = 0 THEN {EmptyTree}
  ELSE LET flat == WithAny({EmptyTree}, {"x.mzBIN", "y_uncalibrated.mzML", "keep.raw"})
           inner == RawTrees(k - 1)
       IN flat
          \cup {Put(t, "sub", DIR, i) : t \in flat, i \in inner}
          \cup {Put(t, "z.mzBIN", DIR, i) : t \in flat, i \in inner}

InitPaths ==
  /\ path_kind \in {"missing", "file", "dir"}
  /\ path_tree \in (IF path_kind = "dir" THEN ResultTrees \cup RawTrees(MaxDepth + 1)
                                         ELSE {EmptyTree})
  /\ InitAux
  /\ finalExists = FALSE
  /\ final = EmptyTree
  /\ rootExists = FALSE
  /\ rootOther = EmptyTree
  /\ stagedExists = FALSE
  /\ staged = EmptyTree
  /\ os_name = "posix"
  /\ exec_exists = TRUE
  /\ temp_dir = "None"
  /\ ram = 0
  /\ threads = -1
  /\ InitCall

NextPaths ==
  \/ search_results_exist
  \/ clean_up_rawfile_directory

SpecPaths == InitPaths /\ [][NextPaths]_vars

\* ---------------------- _move_and_replace_folder_contents, called alone
\* lines 246-265, one call: source_dir is the staging subdirectory,
\* destination_dir the final directory, which line 248 creates when missing
move_and_replace_folder_contents ==
  /\ mergeResult = "none"
  /\ \E o \in CallOutcomes(stagedExists, staged, final) :
       /\ final' = o.dst
       /\ staged' = o.src
       /\ stagedExists' = (stagedExists /\ ~o.ok)
       /\ lost' = o.src
       /\ mergeResult' = (IF o.ok THEN "ok" ELSE "raised")
  /\ finalExists' = TRUE
  /\ steps' = [steps EXCEPT !.merge = @ + 1]
  /\ UNCHANGED <<rootExists, rootOther, argVars, localVars, procVars, pre, toolTree,
                 pc, exception, retval, stepVars, auxVars>>

\* source and destination trees one level deeper than those of a whole run
InitMerge ==
  /\ finalExists \in BOOLEAN
  /\ final \in (IF finalExists THEN Trees(MaxDepth + 1, "old") ELSE {EmptyTree})
  /\ rootExists = TRUE
  /\ rootOther = EmptyTree
  /\ stagedExists \in BOOLEAN
  /\ staged \in (IF stagedExists THEN Trees(MaxDepth + 1, "new") ELSE {EmptyTree})
  /\ os_name = "posix"
  /\ exec_exists = TRUE
  /\ temp_dir = TempDir
  /\ ram = 0
  /\ threads = -1
  /\ pc = "idle"
  /\ executable_name = "unbound"
  /\ temp_dir_existed = TRUE
  /\ cmd = <<>>
  /\ execution_successful = "unbound"
  /\ exception = "none"
  /\ returncode = -1
  /\ stderr = ""
  /\ retval = "none"
  /\ latest_log_file = "unbound"
  /\ at_search = EmptyTree
  /\ calls = 1
  /\ earlier = NoCall
  /\ pre = [finalExists |-> finalExists, final |-> final,
            rootExists |-> rootExists, rootOther |-> rootOther,
            stagedExists |-> stagedExists]
  /\ toolTree = staged
  /\ mergeResult = "none"
  /\ lost = EmptyTree
  /\ steps = [merge |-> 0, dispose |-> 0, reconcile |-> 0]
  /\ path_kind = "missing"
  /\ path_tree = EmptyTree
  /\ InitAux

NextMerge ==
  \/ move_and_replace_folder_contents

SpecMerge == InitMerge /\ [][NextMerge]_vars

\* --------------------------------- _find_latest_log_file, called alone
\* names an output directory may hold: canonical logs, and names that differ
\* from the pattern in length, prefix or suffix
OtherStamp == "log_2024-01-01_12-30-00.txt"
LetterStamp == "log_zzzz-zz-zz_zz-zz-zz.txt"
LongLogName == "log_2024-01-01_12-00-00x.txt"
NoPrefixName == "lag_2024-01-01_12-00-00.txt"
NoSuffixName == "log_2024-01-01_12-00-00.tsv"
LogFileNames == {PriorLogName, OtherStamp, LetterStamp, LongLogName, NoPrefixName,
                 NoSuffixName}
\* names that are there as a file, as a directory, or not at all
LogEntryNames == {ToolLogName, ShortLogName}

RECURSIVE WithDirs(_, _)
WithDirs(ts, names) ==
  IF names = {} THEN ts
  ELSE LET n == CHOOSE m \in names : TRUE
       IN WithDirs(ts \cup {PutFile(t, n, "old") : t \in ts}
                      \cup {Put(t, n, DIR, EmptyTree) : t \in ts}, names \ {n})
LogDirs == WithDirs(WithAny({EmptyTree}, LogFileNames), LogEntryNames)

\* lines 220-232, one call on output_dir
FindLatestLog ==
  /\ latest_log_file = "unbound"
  /\ latest_log_file' = find_latest_log_file(path_tree)
  /\ UNCHANGED <<at_search, calls, earlier, auxVars>>
  /\ UNCHANGED <<fsVars, argVars, localVars, procVars, histVars, pc, exception, retval>>

InitLog ==
  /\ path_kind = "dir"
  /\ path_tree \in LogDirs
  /\ InitAux
  /\ finalExists = FALSE
  /\ final = EmptyTree
  /\ rootExists = FALSE
  /\ rootOther = EmptyTree
  /\ stagedExists = FALSE
  /\ staged = EmptyTree
  /\ os_name = "posix"
  /\ exec_exists = TRUE
  /\ temp_dir = "None"
  /\ ram = 0
  /\ threads = -1
  /\ InitCall

NextLog ==
  \/ FindLatestLog

SpecLog == InitLog /\ [][NextLog]_vars

\* ------------------------------------------------------------ properties
Exited == returncode # -1
ByExitStatus == IF returncode = 0 THEN "True" ELSE "False"
UsesStaging == temp_dir # "None"
\* the finally block has run
CleanedUp == pc \in {"after", "returned", "raised"} /\ cmd # <<>>
\* the number of entries named log_<19 characters>.txt
LogCount(t) ==
  Cardinality({n \in Top(t) : /\ Len(n) = 27
                              /\ SubSeq(n, 1, 4) = "log_"
                              /\ SubSeq(n, 24, 27) = ".txt"})
\* every entry of tree s is in tree t, at the same path with the same content
AllIn(s, t) == \A p \in DOMAIN s : p \in DOMAIN t /\ t[p] = s[p]
FsUntouched ==
  /\ finalExists = pre.finalExists
  /\ final = pre.final
  /\ rootExists = pre.rootExists
  /\ rootOther = pre.rootOther
  /\ stagedExists = pre.stagedExists

\* C1: when the process exited, the call does not raise, and what it returns
\* is True exactly when the exit status is 0, whatever stdout and stderr held.
C1_ExitStatusDecides ==
  Exited =>
    /\ pc # "raised"
    /\ exception = "none"
    /\ execution_successful = ByExitStatus
    /\ (pc = "returned" => retval = ByExitStatus)

C1_Witness ==
  /\ pc = "returned"
  /\ returncode = 0
  /\ stderr = "warning"
  /\ retval = "True"

\* C2: after any run that uses staging, the staging subdirectory is gone and
\* every file and directory the process left under it is in the final
\* directory, at the same relative path with the staged content.
C2_StagedTreeArrives ==
  (UsesStaging /\ CleanedUp) => ~stagedExists /\ AllIn(toolTree, final)

C4_CleanupOnEveryPath ==
  (pc \in {"returned", "raised"} /\ cmd # <<>>) =>
    /\ steps.reconcile = 1
    /\ (UsesStaging => steps.merge = 1 /\ steps.dispose = 1)

\* C5: the only errors the call raises are the two precondition errors,
\* raised before the run is attempted.
C5_OnlyPreconditionErrors ==
  pc = "raised" => exception \in {"OSError", "FileNotFoundError"} /\ cmd = <<>>

\* C6: a failed precondition raises its error with nothing changed: no final
\* directory, staging root or subdirectory created, no redirect log written,
\* no process spawned.
C6_PreconditionsBeforeMutation ==
  (pc # "idle" /\ (os_name \notin {"nt", "posix"} \/ ~exec_exists)) =>
    /\ pc = "raised"
    /\ exception = (IF os_name \notin {"nt", "posix"} THEN "OSError"
                                                     ELSE "FileNotFoundError")
    /\ FsUntouched
    /\ ~Has(final, RedirectName)
    /\ ~Exited
    /\ cmd = <<>>

C6_Witness ==
  /\ pc = "raised"
  /\ os_name = "posix"
  /\ ~exec_exists
  /\ ~finalExists
  /\ UsesStaging
  /\ ~rootExists

\* C7: a merge that raises is caught: the staging context is disposed of all
\* the same, and when the process exited the call goes on to reconcile the
\* log and returns what the exit status says.
C7_MergeFailureAbsorbed ==
  mergeResult = "raised" =>
    /\ ~stagedExists
    /\ steps.dispose = 1
    /\ (Exited => pc # "raised" /\ exception = "none")
    /\ (pc = "returned" =>
          /\ steps.reconcile = 1
          /\ ~Has(final, RedirectName)
          /\ LogCount(final) >= 1
          /\ retval = ByExitStatus)

C7_Witness ==
  /\ mergeResult = "raised"
  /\ lost # EmptyTree
  /\ pc = "returned"
  /\ returncode = 1
  /\ retval = "False"

\* int(s) of a decimal string
DigitValue(c) == (CHOOSE i \in 1..10 : Digits[i] = c) - 1
RECURSIVE ParseNat(_)
ParseNat(s) ==
  IF Len(s) = 1 THEN DigitValue(s)
  ELSE 10 * ParseNat(SubSeq(s, 1, Len(s) - 1)) + DigitValue(SubSeq(s, Len(s), Len(s)))
ParseInt(s) ==
  IF SubSeq(s, 1, 1) = "-" THEN 0 - ParseNat(SubSeq(s, 2, Len(s))) ELSE ParseNat(s)
\* flag is in the vector, followed by the decimal form of value
FlagWith(flag, value) ==
  \E i \in 1..(Len(cmd) - 1) :
    cmd[i] = flag /\ ParseInt(cmd[i + 1]) = value /\ cmd[i + 1] = str(value)

\* C8: the argument vector holds --threads, followed by the requested value,
\* exactly when threads > 0, and holds --ram with its value in every case.
C8_ThreadFlag ==
  cmd # <<>> =>
    /\ (threads > 0 <=> \E i \in 1..Len(cmd) : cmd[i] = "--threads")
    /\ (threads > 0 => FlagWith("--threads", threads))
    /\ FlagWith("--ram", ram)

C8_Witness ==
  /\ cmd # <<>>
  /\ threads = 12
  /\ ram = 0
  /\ cmd[Len(cmd) - 1] = "--threads"
  /\ cmd[Len(cmd)] = "12"
  /\ cmd[Len(cmd) - 2] = "0"

\* C9: search_results_exist answers False for a missing path, for a path that
\* is no directory and for an empty directory, True for a directory holding
\* only a canonical log and for one holding only combined_protein.tsv, and
\* changes nothing.
C9_SearchResultsExist ==
  last_call = "search" =>
    /\ path_tree = path_before
    /\ (path_kind = "missing" => found = "False")
    /\ (path_kind = "file" => found = "False")
    /\ (path_kind = "dir" /\ path_tree = EmptyTree => found = "False")
    /\ (path_kind = "dir" /\ Cardinality(Top(path_tree)) = 1 /\ LogCount(path_tree) = 1
          => found = "True")
    /\ (path_kind = "dir" /\ Top(path_tree) = {ResultName} => found = "True")

C9_Witness ==
  /\ last_call = "search"
  /\ found = "True"
  /\ path_kind = "dir"
  /\ Top(path_tree) = {ResultName}

\* a file named like a temporary file of the tool is left under t
TempFileLeft(t) ==
  \E p \in DOMAIN t :
    /\ t[p] # DIR
    /\ \/ EndsWith(p[Len(p)], ".mzBIN")
       \/ EndsWith(p[Len(p)], "_uncalibrated.mzML")

\* C10: clean_up_rawfile_directory never raises, on a missing path, on a path
\* that is no directory or on any directory tree; after its first run no file
\* ending in .mzBIN or _uncalibrated.mzML is left at any depth, and a second
\* run deletes no file.
C10_CleanupIdempotent ==
  clean_runs >= 1 =>
    /\ clean_error = "none"
    /\ ~TempFileLeft(path_tree)
    /\ (clean_runs >= 2 => deleted = 0 /\ path_tree = path_before)

\* a name of the canonical log pattern: log_, 19 characters, .txt
CanonicalName(n) ==
  /\ Len(n) = 27
  /\ SubSeq(n, 1, 4) = "log_"
  /\ SubSeq(n, 24, 27) = ".txt"
\* line 144 has run
Searched == latest_log_file # "unbound"

\* C11: the search for a canonical log runs after the staged tree was merged
\* and the staging context disposed of, and a canonical log the process wrote
\* into the staging subdirectory is in the final directory when it runs, so
\* the redirect log is deleted, not renamed.
C11_SearchAfterMerge ==
  (Searched /\ UsesStaging) =>
    /\ steps.merge = 1
    /\ steps.dispose = 1
    /\ ~stagedExists
    /\ \A n \in Top(toolTree) :
         CanonicalName(n) =>
           /\ Has(at_search, n)
           /\ latest_log_file # "None"
           /\ ~Has(final, "log_" \o Now \o ".txt")

\* the entries of t named like a canonical log
LogsIn(t) == {n \in Top(t) : CanonicalName(n)}

\* C12: when Step B has run, with either exit status: the final directory
\* had no canonical log and the redirect log now carries a canonical log name,
\* with its content, all else as it was; or it had one or more and the
\* redirect log is gone, all else as it was.
C12_RenameOrDelete ==
  pc = "returned" =>
    /\ Has(at_search, RedirectName)
    /\ ~Has(final, RedirectName)
    /\ IF LogsIn(at_search) = {}
       THEN /\ latest_log_file = "None"
            /\ \E n \in Top(final) \ Top(at_search) :
                 /\ CanonicalName(n)
                 /\ final[<<n>>] = at_search[<<RedirectName>>]
                 /\ Without(final, n) = Without(at_search, RedirectName)
       ELSE /\ latest_log_file \in LogsIn(at_search)
            /\ final = Without(at_search, RedirectName)

C12_Witness ==
  /\ pc = "returned"
  /\ returncode = 1
  /\ retval = "False"
  /\ toolTree = EmptyTree
  /\ LogsIn(at_search) = {}
  /\ at_search[<<RedirectName>>] = "progress"
  /\ Has(final, "log_" \o Now \o ".txt")
  /\ final[<<"log_" \o Now \o ".txt">>] = "progress"

\* some directory is at the same relative path in both trees
SharedDir(s, d) == \E p \in DOMAIN s \cap DOMAIN d : s[p] = DIR /\ d[p] = DIR

\* C13: a call on a source and a destination that share a directory, at any
\* depth, completes without raising: every entry of the source is then in the
\* destination and the source, root and subdirectories, is gone.
C13_MergeCompletes ==
  (mergeResult # "none" /\ pre.stagedExists /\ SharedDir(toolTree, pre.final)) =>
    /\ mergeResult = "ok"
    /\ ~stagedExists
    /\ staged = EmptyTree
    /\ AllIn(toolTree, final)

\* the proper prefixes of path p
Above(p) == {SubSeq(p, 1, k) : k \in 1..(Len(p) - 1)}
\* destination path p is neither the path of a source entry nor inside a
\* destination entry that a file of the source replaces
Outside(src, p) ==
  /\ p \notin DOMAIN src
  /\ \A q \in Above(p) : q \in DOMAIN src => src[q] = DIR

\* C17: after a call, however it ended, every destination entry whose path is
\* neither that of a source entry nor inside an entry a source leaf replaced
\* is where it was, with its content: a directory on both sides keeps its
\* other children.
C17_DestinationFrame ==
  mergeResult # "none" =>
    \A p \in DOMAIN pre.final :
      Outside(toolTree, p) => p \in DOMAIN final /\ final[p] = pre.final[p]

C17_Witness ==
  /\ mergeResult # "none"
  /\ IsDir(toolTree, DirName)
  /\ IsDir(pre.final, DirName)
  /\ <<DirName, FileName>> \in DOMAIN toolTree
  /\ <<DirName, FileName>> \in DOMAIN pre.final
  /\ <<DirName, DirName>> \notin DOMAIN toolTree
  /\ <<DirName, DirName>> \in DOMAIN pre.final
  /\ final[<<DirName, FileName>>] = "new"
  /\ final[<<DirName, DirName>>] = "old"

\* the second call's process exited as the first one's did and left the same
\* in its work directory and on its stdout
SameRun ==
  /\ calls = 2
  /\ Exited
  /\ returncode = earlier.returncode
  /\ toolTree = earlier.toolTree
  /\ Searched
  /\ at_search[<<RedirectName>>] = earlier.stdout

\* C14: the reconciliation (merge, then canonical log) run a second time, on
\* the final directory a first run left, with the same staged output, does
\* not raise and leaves the final directory as the first run left it.
C14_ReconcileIdempotent ==
  (SameRun /\ pc \in {"returned", "raised"}) =>
    /\ pc = "returned"
    /\ final = earlier.final

\* C15: a staging root that the call created is gone after the run when it
\* is empty; when it is not, it stays, and the removal that failed raises
\* nothing and changes nothing of the outcome.
C15_CreatedRootRemoved ==
  (UsesStaging /\ ~pre.rootExists /\ CleanedUp) =>
    /\ (rootOther = EmptyTree => ~rootExists)
    /\ (rootOther # EmptyTree =>
          /\ rootExists
          /\ exception = (IF Exited THEN "none" ELSE "PermissionError")
          /\ (Exited => pc # "raised")
          /\ (pc = "returned" => retval = ByExitStatus))

C15_Witness ==
  /\ pc = "returned"
  /\ UsesStaging
  /\ ~pre.rootExists
  /\ rootExists
  /\ Has(rootOther, "stray.tmp")
  /\ ~stagedExists
  /\ retval = "True"

\* C18: a staging root that was there before the call is there afterwards,
\* and what it held besides the call's own subdirectory is unchanged, at every
\* point and on every exit path.
C18_PriorRootKept ==
  pre.rootExists => rootExists /\ rootOther = pre.rootOther

C18_Witness ==
  /\ pre.rootExists
  /\ pre.rootOther = EmptyTree
  /\ pc \in {"returned", "raised"}
  /\ steps.dispose = 1
  /\ ~stagedExists
  /\ rootExists

\* name a comes before name b: at the first place where they differ a has
\* the lesser character, or a ends there
Before(a, b) ==
  \E i \in 1..Len(b) :
    /\ i <= Len(a) + 1
    /\ SubSeq(a, 1, i - 1) = SubSeq(b, 1, i - 1)
    /\ \/ i = Len(a) + 1
       \/ \E j, k \in 1..Len(CharOrder) :
            /\ j < k
            /\ SubSeq(CharOrder, j, j) = SubSeq(a, i, i)
            /\ SubSeq(CharOrder, k, k) = SubSeq(b, i, i)

\* C16: _find_latest_log_file returns the entry whose name is the greatest,
\* in lexical order, of those that start with log_, end with .txt and are 27
\* characters long, and None when there is none; a name of the prefix and
\* suffix but of another length never counts.
C16_LatestLog ==
  Searched =>
    LET logs == LogsIn(path_tree)
    IN /\ logs = {} <=> latest_log_file = "None"
       /\ logs # {} =>
            /\ latest_log_file \in logs
            /\ \A m \in logs : m = latest_log_file \/ Before(m, latest_log_file)
       /\ latest_log_file \notin {ShortLogName, LongLogName, NoPrefixName, NoSuffixName}
       /\ (Top(path_tree) \cap {PriorLogName, ToolLogName, OtherStamp, LetterStamp}
             = {PriorLogName, ToolLogName} => latest_log_file = ToolLogName)

C16_Witness ==
  /\ Searched
  /\ latest_log_file = OtherStamp
  /\ {PriorLogName, ToolLogName, OtherStamp, ShortLogName, LongLogName} \subseteq Top(path_tree)
  /\ IsDir(path_tree, ToolLogName)

\* C19: Step B leaves every canonical log that was in the final directory
\* where it was, with its content; a new canonical log name appears only when
\* there was none; with one there, only the redirect log goes.
C19_LogsUntouched ==
  Searched =>
    /\ \A n \in LogsIn(at_search) :
         /\ Has(final, n)
         /\ final[<<n>>] = at_search[<<n>>]
         /\ Sub(final, n) = Sub(at_search, n)
    /\ (LogsIn(final) # LogsIn(at_search) => LogsIn(at_search) = {})
    /\ (LogsIn(at_search) # {} => final = Without(at_search, RedirectName))

C19_Witness ==
  /\ pc = "returned"
  /\ LogsIn(at_search) = {PriorLogName, ToolLogName}
  /\ Has(at_search, RedirectName)
  /\ final[<<PriorLogName>>] = "old"
  /\ final[<<ToolLogName>>] = "tool log"
  /\ latest_log_file = ToolLogName
  /\ ~Has(final, RedirectName)
====
